---- MODULE Spec2Model ----
(***************************************************************************)
(* Listing ingestion, deduplication and multi-tenant preference matching   *)
(* of berlin_flat_finder, modelled from the Python sketches and the SQL    *)
(* schema in src/POC_Scope.md.                                             *)
(*                                                                         *)
(* Nullable columns and Python None are modelled as options: None is the   *)
(* empty tuple and a present value v is <<v>>.                             *)
(***************************************************************************)
EXTENDS Integers, Sequences, FiniteSets, TLC

VARIABLES
    sc_stage,      \* scoring harness: "input" | "stored" | "scored"
    sc_raw,        \* the preference payload handed to the insert
    sc_pref,       \* the user_preferences row as stored
    sc_listing,    \* the listing being matched
    sc_outcome,    \* result of find_matching_users for (sc_listing, sc_pref)
    db,            \* user_preferences table: user_id -> row, or NoRow
    cache,         \* Redis key 'active_user_preferences': NoCache or the cached dict
    user_cache,    \* Redis per-user preference entries written by create_user_preference
    up_pc,         \* create_user_preference: "idle" | "cache"
    up_data,       \* create_user_preference: preference_data of the call in progress
    upserts,       \* number of create_user_preference calls so far
    m_pc,          \* per matching pass: "idle" | "cache_get" | "db_get" | "cache_set" | "done"
    m_listing,     \* per matching pass: the listing
    m_prefs,       \* per matching pass: prefs read from the database
    m_snapshot,    \* per matching pass: user_preferences, the dict the loop iterates
    m_results,     \* per matching pass: matching_users
    price_index,   \* OptimizedMatcher.price_index: "min-max" -> list of user ids
    district_index,\* OptimizedMatcher.district_index: district -> list of user ids
    rb_pc,         \* build_user_indexes: "idle" | "fetched"
    rb_users,      \* build_user_indexes: users, as returned by get_active_users
    ix_old,        \* the users the index held before the last build_user_indexes ran
    ix_input,      \* the users handed to the last build_user_indexes that ran
    obs,           \* the last get_candidate_users call: listing, result, context
    seen,          \* Change Detector seen-store: external_id -> stored content hash, or None
    dt_pc,         \* per feed poller: "sleep" | "backoff" | "detect" | "process" | "error"
    dt_batch,      \* per feed poller: the records of its batch detectNew has yet to handle
    dt_out,        \* per feed poller: new_listings, the detectNew output not yet processed
    polls,         \* number of polls started so far
    listings,      \* listings table: external_ids stored by store_listing
    match_tasks,   \* tasks created by process_new_listings, in creation order
    detect_log,    \* the decisions detectNew has taken: key, verdict, for a
                   \* first sighting whether another poller had the key ahead,
                   \* and whether the listing was inactive when it was sighted
    dt_retries,    \* per feed poller: retries of detectNew that failed for the current batch
    dt_failed,     \* per feed poller: batches detectNew gave up on
    dt_reported,   \* per feed poller: handle_monitoring_error calls
    d_pc,          \* per match_against_users task: "loop" | "gather" | "apply" | "done" | "raised"
    d_matches,     \* per task: matching_users, as find_matching_users returned it
    d_queue,       \* per task: the matching users the loop has yet to reach
    d_cur,         \* per task: the match notify_user_of_match is handling, or NoRow
    intents,       \* every collaborator call made: kind, listing, user, channel, state
    d_calls,       \* every notify_user_of_match call: listing, user, score, outcome
    now,           \* wall clock, in seconds
    cache_expiry,  \* when the 'active_user_preferences' entry runs out
    changed_at,    \* per user: when create_user_preference last wrote the row, or None
    m_started,     \* per matching pass: when find_matching_users was called
    listing_rows,  \* Change Detector store: external_id -> listing row, or NoRow
    skipped,       \* the malformed payloads detectNew has logged
    store_log,     \* the store_listing calls of process_new_listings: record, outcome
    task_pc,       \* per created task: "spawned" | "matched" | "recorded" | "done" | "cancelled"
    task_results,  \* per created task: matching_users
    user_matches,  \* user_matches table: rows id, user_id, listing_id, match_score
    pl_intents     \* what the tasks handed to the dispatcher: listing, user

scoreVars == <<sc_stage, sc_raw, sc_pref, sc_listing, sc_outcome>>

storeVars == <<db, cache, user_cache, up_pc, up_data, upserts>>

matchVars == <<m_pc, m_listing, m_prefs, m_snapshot, m_results>>

indexVars == <<price_index, district_index, rb_pc, rb_users, ix_old, ix_input, obs>>

failVars == <<dt_retries, dt_failed, dt_reported>>

detectVars == <<seen, dt_pc, dt_batch, dt_out, polls, listings, match_tasks, detect_log, failVars>>

dispatchVars == <<d_pc, d_matches, d_queue, d_cur, intents, d_calls>>

timeVars == <<now, cache_expiry, changed_at, m_started>>

pipeVars == <<listing_rows, skipped, store_log, task_pc, task_results, user_matches, pl_intents>>

vars == <<scoreVars, storeVars, matchVars, indexVars, detectVars, dispatchVars, timeVars, pipeVars>>

----------------------------------------------------------------------------
(* Option values *)

None == <<>>

Some(v) == <<v>>

Val(o) == o[1]

\* Python truthiness of an optional integer: None and 0 are falsy.
Truthy(o) == o # None /\ Val(o) # 0

Tri == {None, Some(TRUE), Some(FALSE)}

Max(a, b) == IF a >= b THEN a ELSE b

Min(a, b) == IF a <= b THEN a ELSE b

Abs(a) == IF a >= 0 THEN a ELSE -a

----------------------------------------------------------------------------
(* Bounds of the scoring inputs *)

MaxPrice == 4

MaxRooms == 3

MaxSize == 2

Districts == {"Mitte", "Pankow", "Spandau"}

\* The amenity columns: listing column |-> user_preferences column.
Amenities == {"pet_friendly", "balcony", "furnished"}

PrefColumn(a) == IF a = "balcony" THEN "balcony_required" ELSE a

----------------------------------------------------------------------------
(* UserPreferenceEngine: hard filters *)

\* price_in_range(price, price_min, price_max): an unset bound does not bound.
price_in_range(price, price_min, price_max) ==
    /\ (price_min = None \/ Val(price_min) <= price)
    /\ (price_max = None \/ price <= Val(price_max))

\* location_matches(listing.location, preferences.preferred_districts):
\* the listing lies in one of the preferred districts (a null column lists none).
location_matches(location, preferred_districts) ==
    preferred_districts # None /\ location \in Val(preferred_districts)

\* size_matches(rooms, size_sqm, preferences): the room range is applied when
\* both of its bounds are set, the minimum size when it is set.
size_matches(rooms, size_sqm, preferences) ==
    /\ (preferences.min_rooms # None /\ preferences.max_rooms # None)
          => (Val(preferences.min_rooms) <= rooms /\ rooms <= Val(preferences.max_rooms))
    /\ (preferences.min_size_sqm = None \/ Val(preferences.min_size_sqm) <= size_sqm)

\* One amenity: the preference requires a value and the listing states the
\* opposite one.
AmenityConflict(listing, preferences, a) ==
    /\ preferences[PrefColumn(a)] # None
    /\ listing[a] # None
    /\ preferences[PrefColumn(a)] # listing[a]

\* additional_criteria_match(listing, preferences)
additional_criteria_match(listing, preferences) ==
    \A a \in Amenities : ~AmenityConflict(listing, preferences, a)

\* Faulty variant: the location check is missing.
listing_matches_preferences_NoLocation(listing, preferences) ==
    /\ price_in_range(listing.price, preferences.price_min, preferences.price_max)
    /\ size_matches(listing.rooms, listing.size_sqm, preferences)
    /\ additional_criteria_match(listing, preferences)

\* Faulty variant: the size requirements are not checked.
listing_matches_preferences_NoSize(listing, preferences) ==
    /\ price_in_range(listing.price, preferences.price_min, preferences.price_max)
    /\ location_matches(listing.district, preferences.preferred_districts)
    /\ additional_criteria_match(listing, preferences)

listing_matches_preferences(listing, preferences) ==
    /\ price_in_range(listing.price, preferences.price_min, preferences.price_max)
    /\ location_matches(listing.district, preferences.preferred_districts)
    /\ size_matches(listing.rooms, listing.size_sqm, preferences)
    /\ additional_criteria_match(listing, preferences)

----------------------------------------------------------------------------
(* UserPreferenceEngine: scoring.  A score is the exact rational num/den. *)

Frac(n, d) == [num |-> n, den |-> d]

FracLeq(x, y) == x.num * y.den <= y.num * x.den

FracEq(x, y) == x.num * y.den = y.num * x.den

\* count_amenity_matches(listing, preferences): the amenities the preference
\* asks for and the listing states with the same value.
count_amenity_matches(listing, preferences) ==
    Cardinality({a \in Amenities :
        preferences[PrefColumn(a)] # None /\ listing[a] = preferences[PrefColumn(a)]})

\* price_score * 0.3, for a truthy ideal_price
PriceComponent(listing, preferences) ==
    LET ideal == Val(preferences.ideal_price)
        price_diff == Abs(listing.price - ideal)
    IN  Frac(30 * Max(0, ideal - price_diff), ideal)

DistrictComponent(listing, preferences) ==
    IF listing.district \in preferences.top_preferred_districts THEN 30
    ELSE IF listing.district \in preferences.acceptable_districts THEN 15
    ELSE 0

\* Faulty variant: a listing one room off the ideal gets half the credit.
RoomComponent_Partial(listing, preferences) ==
    IF ~Truthy(preferences.ideal_rooms) THEN 0
    ELSE IF listing.rooms = Val(preferences.ideal_rooms) THEN 20
    ELSE IF Abs(listing.rooms - Val(preferences.ideal_rooms)) = 1 THEN 10
    ELSE 0

RoomComponent(listing, preferences) ==
    IF Truthy(preferences.ideal_rooms) /\ listing.rooms = Val(preferences.ideal_rooms)
    THEN 20 ELSE 0

AmenityComponent(listing, preferences) ==
    count_amenity_matches(listing, preferences) * 5

\* Faulty variant: the price score is not floored at 0.
calculate_match_score_NoFloor(listing, preferences) ==
    LET rest == DistrictComponent(listing, preferences)
                  + RoomComponent(listing, preferences)
                  + AmenityComponent(listing, preferences)
        ideal == Val(preferences.ideal_price)
        total == IF Truthy(preferences.ideal_price)
                 THEN Frac(30 * (ideal - Abs(listing.price - ideal)) + ideal * rest, ideal)
                 ELSE Frac(rest, 1)
    IN  IF FracLeq(Frac(100, 1), total) THEN Frac(100, 1) ELSE total

calculate_match_score(listing, preferences) ==
    LET rest == DistrictComponent(listing, preferences)
                  + RoomComponent(listing, preferences)
                  + AmenityComponent(listing, preferences)
        total == IF Truthy(preferences.ideal_price)
                 THEN LET pc == PriceComponent(listing, preferences)
                      IN  Frac(pc.num + pc.den * rest, pc.den)
                 ELSE Frac(rest, 1)
    IN  IF FracLeq(Frac(100, 1), total) THEN Frac(100, 1) ELSE total

Excluded == [excluded |-> TRUE]

Scored(s) == [excluded |-> FALSE, score |-> s]

\* One iteration of the loop of find_matching_users: the score is computed
\* only for a listing that passes listing_matches_preferences.
score(listing, preferences) ==
    IF listing_matches_preferences(listing, preferences)
    THEN Scored(calculate_match_score(listing, preferences))
    ELSE Excluded

----------------------------------------------------------------------------
(* user_preferences rows: a column the insert does not give takes the     *)
(* column default of the table.                                            *)

PrefAmenityColumns == {PrefColumn(a) : a \in Amenities}

ColumnDefault(col) == IF col = "furnished" THEN None ELSE Some(FALSE)

\* The row an insert of payload raw leaves in user_preferences; raw.given
\* names the amenity columns the payload carries.
StoredRow(raw) ==
    [c \in (DOMAIN raw) \ {"given"} |-> IF c \in PrefAmenityColumns /\ c \notin raw.given
                                         THEN ColumnDefault(c) ELSE raw[c]]

----------------------------------------------------------------------------
(* Scoring inputs *)

DistrictProfiles ==
    { [preferred |-> Some({"Mitte", "Pankow"}), top |-> {"Mitte"}, acceptable |-> {"Pankow"}],
      [preferred |-> Some(Districts),         top |-> {"Mitte"}, acceptable |-> {}],
      [preferred |-> Some({}),                top |-> {},        acceptable |-> {}] }

MkListing(price, rooms, size_sqm, district, pet, balcony, furnished) ==
    [price |-> price, rooms |-> rooms, size_sqm |-> size_sqm, district |-> district,
     pet_friendly |-> pet, balcony |-> balcony, furnished |-> furnished]

MkPref(pmin, pmax, ideal, dp, rmin, rmax, rideal, smin, pet, balcony, furnished, given) ==
    [price_min |-> pmin, price_max |-> pmax, ideal_price |-> ideal,
     preferred_districts |-> dp.preferred,
     top_preferred_districts |-> dp.top,
     acceptable_districts |-> dp.acceptable,
     min_rooms |-> rmin, max_rooms |-> rmax, ideal_rooms |-> rideal,
     min_size_sqm |-> smin,
     pet_friendly |-> pet, balcony_required |-> balcony, furnished |-> furnished,
     given |-> given]

\* Numeric grid: every combination of the numeric fields and the district,
\* with the amenities all unset or all true.
NumericListings ==
    { MkListing(p, r, s, d, a, a, a) :
        p \in 1..MaxPrice, r \in 1..MaxRooms, s \in 1..MaxSize, d \in Districts,
        a \in {None, Some(TRUE)} }

NumericPrefs ==
    { MkPref(pmin, pmax, ideal, dp, rmin, rmax, rideal, smin, a, a, a, PrefAmenityColumns) :
        pmin \in {None, Some(2)}, pmax \in {None, Some(MaxPrice - 1)},
        ideal \in {None, Some(0), Some(1), Some(MaxPrice - 1)},
        dp \in DistrictProfiles,
        rmin \in {None, Some(2)}, rmax \in {None, Some(2)}, rideal \in {None, Some(2)},
        smin \in {None, Some(MaxSize)},
        a \in {None, Some(TRUE)} }

\* Amenity grid: every combination of the three amenities on both sides, each
\* preference column given (true, false or null) or left out of the payload.
AmenityListings ==
    { MkListing(2, 2, MaxSize, "Mitte", pet, balcony, furnished) :
        pet \in Tri, balcony \in Tri, furnished \in Tri }

GivenOrNot(col, v) == IF v = "omitted" THEN {} ELSE {col}

ValueOf(v) == IF v = "omitted" THEN None ELSE IF v = "null" THEN None ELSE Some(v = "true")

PayloadChoices == {"omitted", "null", "true", "false"}

AmenityPrefs ==
    { MkPref(None, Some(MaxPrice - 1), ideal, dp, None, None, Some(2), None,
             ValueOf(pet), ValueOf(balcony), ValueOf(furnished),
             GivenOrNot("pet_friendly", pet) \cup GivenOrNot("balcony_required", balcony)
                \cup GivenOrNot("furnished", furnished)) :
        ideal \in {None, Some(2)},
        dp \in {dp0 \in DistrictProfiles : dp0.preferred = Some(Districts)},
        pet \in PayloadChoices, balcony \in PayloadChoices, furnished \in PayloadChoices }

\* The documented scenario: one listing at 1000 EUR with two rooms in Mitte
\* that states no amenity.
ScenarioListing == MkListing(1000, 2, None, "Mitte", None, None, None)

ScenarioDistricts == [preferred |-> Some({"Mitte"}), top |-> {"Mitte"}, acceptable |-> {}]

\* Preference A: 900-1100, ideal 1000, Mitte top-preferred, ideal rooms 2, no
\* amenity requirement; the payload either leaves the amenity columns out or
\* carries them as null.
ScenarioPrefsA ==
    { MkPref(Some(900), Some(1100), Some(1000), ScenarioDistricts,
             None, None, Some(2), None, None, None, None, given) :
        given \in {{}, PrefAmenityColumns} }

\* Preference B: 1200-1500, otherwise as A.
ScenarioPrefsB ==
    { MkPref(Some(1200), Some(1500), None, ScenarioDistricts,
             None, None, Some(2), None, None, None, None, given) :
        given \in {{}, PrefAmenityColumns} }

----------------------------------------------------------------------------
(* State of the components a specification does not exercise *)

NoRow == [none |-> TRUE]

NoCache == [present |-> FALSE]

Cached(value) == [present |-> TRUE, value |-> value]

\* Python values that are a dict key: an int or a str.
PyInt(n) == [int |-> n]

PyStr(t) == [str |-> t]

MaxUsers == 2

Users == 1..MaxUsers

NumPasses == 1

Passes == 1..NumPasses

ScoreIdle ==
    /\ sc_stage = "off"
    /\ sc_raw = NoRow
    /\ sc_pref = NoRow
    /\ sc_listing = NoRow
    /\ sc_outcome = NoRow

StoreIdle ==
    /\ db = [u \in Users |-> NoRow]
    /\ cache = NoCache
    /\ user_cache = [u \in Users |-> NoRow]
    /\ up_pc = "idle"
    /\ up_data = NoRow
    /\ upserts = 0

MatchIdle ==
    /\ m_pc = [p \in Passes |-> "idle"]
    /\ m_listing = [p \in Passes |-> NoRow]
    /\ m_prefs = [p \in Passes |-> <<>>]
    /\ m_snapshot = [p \in Passes |-> <<>>]
    /\ m_results = [p \in Passes |-> <<>>]

\* An empty dict.
EmptyDict == [k \in {} |-> <<>>]

\* OptimizedMatcher.__init__
IndexIdle ==
    /\ price_index = EmptyDict
    /\ district_index = EmptyDict
    /\ rb_pc = "idle"
    /\ rb_users = <<>>
    /\ ix_old = <<>>
    /\ ix_input = <<>>
    /\ obs = NoRow

\* The two feed pollers, one per monitoring URL.
Pollers == {"html_search", "api_search"}

ExternalIds == {"X123", "X456"}

\* GlobalListingMonitor.__init__: seen_listings = set()
DetectIdle ==
    /\ seen = [id \in ExternalIds |-> None]
    /\ dt_pc = [p \in Pollers |-> "sleep"]
    /\ dt_batch = [p \in Pollers |-> <<>>]
    /\ dt_out = [p \in Pollers |-> <<>>]
    /\ polls = 0
    /\ listings = {}
    /\ match_tasks = <<>>
    /\ detect_log = {}
    /\ dt_retries = [p \in Pollers |-> 0]
    /\ dt_failed = [p \in Pollers |-> 0]
    /\ dt_reported = [p \in Pollers |-> 0]

\* The clock stands at 0 and nothing has been timed.
TimeIdle ==
    /\ now = 0
    /\ cache_expiry = 0
    /\ changed_at = [u \in Users |-> None]
    /\ m_started = [p \in Passes |-> 0]

\* No listing row is stored, no task has been created, nothing is logged.
PipeIdle ==
    /\ listing_rows = [id \in ExternalIds |-> NoRow]
    /\ skipped = {}
    /\ store_log = <<>>
    /\ task_pc = <<>>
    /\ task_results = <<>>
    /\ user_matches = {}
    /\ pl_intents = {}

\* The listings a match_against_users task was created for.
DispatchListings == {"L1", "L2"}

\* No task has been created.
DispatchIdle ==
    /\ d_pc = [t \in DispatchListings |-> "done"]
    /\ d_matches = [t \in DispatchListings |-> <<>>]
    /\ d_queue = [t \in DispatchListings |-> <<>>]
    /\ d_cur = [t \in DispatchListings |-> NoRow]
    /\ intents = {}
    /\ d_calls = {}

----------------------------------------------------------------------------
(* Scoring harness: a payload is stored, then a listing is matched against *)
(* the stored row.                                                         *)

ScoreInit ==
    /\ StoreIdle
    /\ MatchIdle
    /\ IndexIdle
    /\ DetectIdle
    /\ DispatchIdle
    /\ TimeIdle
    /\ PipeIdle
    /\ sc_stage = "input"
    /\ \/ sc_listing \in NumericListings /\ sc_raw \in NumericPrefs
       \/ sc_listing \in AmenityListings /\ sc_raw \in AmenityPrefs
       \/ sc_listing = ScenarioListing /\ sc_raw \in ScenarioPrefsA \cup ScenarioPrefsB
    /\ sc_pref = NoRow
    /\ sc_outcome = NoRow

\* insert into user_preferences
StorePreference ==
    /\ sc_stage = "input"
    /\ sc_pref' = StoredRow(sc_raw)
    /\ sc_stage' = "stored"
    /\ UNCHANGED <<sc_raw, sc_listing, sc_outcome, storeVars, matchVars, indexVars, detectVars, dispatchVars, timeVars, pipeVars>>

\* find_matching_users, for the one stored row
ScoreListing ==
    /\ sc_stage = "stored"
    /\ sc_outcome' = score(sc_listing, sc_pref)
    /\ sc_stage' = "scored"
    /\ UNCHANGED <<sc_raw, sc_listing, sc_pref, storeVars, matchVars, indexVars, detectVars, dispatchVars, timeVars, pipeVars>>

ScoreNext == StorePreference \/ ScoreListing

SpecScore == ScoreInit /\ [][ScoreNext]_vars

----------------------------------------------------------------------------
(* Properties of the Matching Engine (specification SpecScore) *)

\* The hard filters as the design states them.
PriceOutside(l, p) ==
    \/ p.price_min # None /\ l.price < Val(p.price_min)
    \/ p.price_max # None /\ l.price > Val(p.price_max)

RoomsOutside(l, p) ==
    /\ p.min_rooms # None
    /\ p.max_rooms # None
    /\ (l.rooms < Val(p.min_rooms) \/ l.rooms > Val(p.max_rooms))

SizeBelow(l, p) == p.min_size_sqm # None /\ l.size_sqm < Val(p.min_size_sqm)

AmenityOpposite(l, p) ==
    \E a \in Amenities :
        /\ p[PrefColumn(a)] \in {Some(TRUE), Some(FALSE)}
        /\ l[a] \in {Some(TRUE), Some(FALSE)}
        /\ l[a] # p[PrefColumn(a)]

HardFilterFails(l, p) ==
    PriceOutside(l, p) \/ RoomsOutside(l, p) \/ SizeBelow(l, p) \/ AmenityOpposite(l, p)

\* C6: whenever at least one hard filter fails (price outside the range, rooms
\* outside a fully set room range, size below the minimum, an amenity the
\* preference requires and the listing states the opposite of), the outcome
\* is "excluded" and carries no score.
C6_HardFilterExcludes ==
    (sc_stage = "scored" /\ HardFilterFails(sc_listing, sc_pref))
        => sc_outcome = Excluded

\* A pair excluded by the minimum size alone has been scored.
C6_Witness ==
    /\ sc_stage = "scored"
    /\ SizeBelow(sc_listing, sc_pref)
    /\ ~PriceOutside(sc_listing, sc_pref)
    /\ ~RoomsOutside(sc_listing, sc_pref)
    /\ ~AmenityOpposite(sc_listing, sc_pref)
    /\ location_matches(sc_listing.district, sc_pref.preferred_districts)
    /\ sc_outcome = Excluded

\* C7: the score of every pair that is not excluded lies in [0,100].
C7_ScoreInRange ==
    (sc_stage = "scored" /\ ~sc_outcome.excluded)
        => /\ sc_outcome.score.den > 0
           /\ sc_outcome.score.num >= 0
           /\ FracLeq(sc_outcome.score, Frac(100, 1))

\* A scored pair whose price is further from ideal_price than ideal_price
\* itself, so that the price score is floored at 0.
C7_Witness ==
    /\ sc_stage = "scored"
    /\ ~sc_outcome.excluded
    /\ Truthy(sc_pref.ideal_price)
    /\ Abs(sc_listing.price - Val(sc_pref.ideal_price)) > Val(sc_pref.ideal_price)
    /\ sc_outcome.score.num >= 0

\* C9 (as stated): for a preference whose amenity column is unspecified, or
\* was stored without an explicit choice, changing the listing's value of that
\* amenity never changes the exclusion outcome; and a listing that does not
\* state an amenity is never excluded because of it.
C9_AmenityNeutrality ==
    sc_stage # "input" =>
        \A a \in Amenities :
            /\ (PrefColumn(a) \notin sc_raw.given \/ sc_pref[PrefColumn(a)] = None)
                 => \A v \in Tri :
                       score([sc_listing EXCEPT ![a] = v], sc_pref).excluded
                         = score(sc_listing, sc_pref).excluded
            /\ sc_listing[a] = None
                 => score(sc_listing, sc_pref).excluded
                      = score(sc_listing, [sc_pref EXCEPT ![PrefColumn(a)] = None]).excluded

PreferredSet(p) ==
    IF p.preferred_districts = None THEN {} ELSE Val(p.preferred_districts)

TierOf(l, p) ==
    IF l.district \in p.top_preferred_districts THEN 30
    ELSE IF l.district \in p.acceptable_districts THEN 15
    ELSE 0

NoTiers(p) == [p EXCEPT !.top_preferred_districts = {}, !.acceptable_districts = {}]

ClampAdd(x, n) ==
    IF FracLeq(Frac(100, 1), Frac(x.num + n * x.den, x.den))
    THEN Frac(100, 1) ELSE Frac(x.num + n * x.den, x.den)

\* C10 (as stated): a listing whose district is neither top-preferred nor
\* acceptable is not excluded on that ground: when no other hard filter fails
\* it is scored.
C10_DistrictNotHardFilter ==
    ( /\ sc_stage = "scored"
      /\ sc_listing.district \notin
             (sc_pref.top_preferred_districts \cup sc_pref.acceptable_districts)
      /\ ~HardFilterFails(sc_listing, sc_pref) )
        => ~sc_outcome.excluded

\* C10 (amended): district is a hard filter and a scoring signal. A listing
\* whose district is not in preferred_districts is excluded and gets no
\* score; a listing that is not excluded gets a district contribution of 30
\* if top-preferred, 15 if acceptable, 0 otherwise.
C10_DistrictFilterAndTier ==
    sc_stage = "scored" =>
        /\ sc_listing.district \notin PreferredSet(sc_pref)
              => sc_outcome = Excluded
        /\ ~sc_outcome.excluded
              => FracEq(sc_outcome.score,
                        ClampAdd(calculate_match_score(sc_listing, NoTiers(sc_pref)),
                                 TierOf(sc_listing, sc_pref)))

\* A listing in no preferred district, passing every other filter, has been
\* matched and excluded.
C10_Witness ==
    /\ sc_stage = "scored"
    /\ sc_listing.district \notin PreferredSet(sc_pref)
    /\ sc_listing.district \notin
           (sc_pref.top_preferred_districts \cup sc_pref.acceptable_districts)
    /\ ~HardFilterFails(sc_listing, sc_pref)
    /\ sc_outcome = Excluded

\* C11 (as stated): the scenario listing scores exactly 100 against
\* preference A and is not excluded; against preference B it is excluded and
\* no score is computed.
C11_ScenarioScores ==
    (sc_stage = "scored" /\ sc_listing = ScenarioListing) =>
        /\ sc_raw \in ScenarioPrefsA => sc_outcome = Scored(Frac(100, 1))
        /\ sc_raw \in ScenarioPrefsB => sc_outcome = Excluded

\* C20 (as stated): for a scored listing and a preference without
\* ideal_price, the price component is the flat value 30: the score is the
\* district, room and amenity components plus 30, capped at 100, and it is
\* not below the score of the same preference with any ideal_price set.
C20_NoIdealPriceNeutral ==
    ( /\ sc_stage = "scored"
      /\ ~sc_outcome.excluded
      /\ sc_pref.ideal_price = None )
        => /\ FracEq(sc_outcome.score,
                     ClampAdd(Frac(DistrictComponent(sc_listing, sc_pref)
                                     + RoomComponent(sc_listing, sc_pref)
                                     + AmenityComponent(sc_listing, sc_pref), 1), 30))
           /\ \A ideal \in 1..MaxPrice :
                 FracLeq(calculate_match_score(sc_listing,
                             [sc_pref EXCEPT !.ideal_price = Some(ideal)]),
                         sc_outcome.score)

\* C26: for a scored pair with an ideal_price, the score is the sum, capped
\* at 100 and never below 0, of the price fit (30% of
\* max(0, 100 - |price - ideal_price| / ideal_price * 100)), the district tier
\* (30, 15 or 0), the room match (20 for rooms equal to ideal_rooms, else 0)
\* and the amenity bonus (5 per satisfied amenity, at most 20); the four
\* maxima add up to 100.
C26_WeightedSum ==
    ( /\ sc_stage = "scored"
      /\ ~sc_outcome.excluded
      /\ Truthy(sc_pref.ideal_price) )
        => LET ideal == Val(sc_pref.ideal_price)
               diff == Abs(sc_listing.price - ideal)
               \* 30/100 * max(0, 100 - diff / ideal * 100), as one fraction over ideal
               price_fit == Frac(30 * Max(0, ideal - diff), ideal)
               tier == IF sc_listing.district \in sc_pref.top_preferred_districts THEN 30
                       ELSE IF sc_listing.district \in sc_pref.acceptable_districts THEN 15
                       ELSE 0
               room == IF sc_pref.ideal_rooms # None
                          /\ sc_listing.rooms = Val(sc_pref.ideal_rooms)
                       THEN 20 ELSE 0
               satisfied == {a \in Amenities :
                               /\ sc_pref[PrefColumn(a)] # None
                               /\ sc_listing[a] = sc_pref[PrefColumn(a)]}
               amenity == Min(20, 5 * Cardinality(satisfied))
               total == Frac(price_fit.num + price_fit.den * (tier + room + amenity),
                             price_fit.den)
           IN  /\ FracEq(sc_outcome.score,
                         IF FracLeq(Frac(100, 1), total) THEN Frac(100, 1)
                         ELSE IF FracLeq(total, Frac(0, 1)) THEN Frac(0, 1)
                         ELSE total)
               /\ 30 + 30 + 20 + 20 = 100

\* A pair has been scored in which every component counts: the price is off
\* the ideal but within reach, the district is acceptable, the rooms are the
\* ideal rooms and an amenity is satisfied.
C26_Witness ==
    /\ sc_stage = "scored"
    /\ ~sc_outcome.excluded
    /\ Truthy(sc_pref.ideal_price)
    /\ sc_listing.price # Val(sc_pref.ideal_price)
    /\ Abs(sc_listing.price - Val(sc_pref.ideal_price)) < Val(sc_pref.ideal_price)
    /\ sc_listing.district \in sc_pref.acceptable_districts
    /\ sc_listing.district \notin sc_pref.top_preferred_districts
    /\ sc_pref.ideal_rooms = Some(sc_listing.rooms)
    /\ AmenityComponent(sc_listing, sc_pref) > 0

----------------------------------------------------------------------------
(* UserManager and the matching pass of UserPreferenceEngine               *)
(* (specification SpecMatch).  Each action is one run between two awaits.  *)

MaxUpserts == 2

\* cache.setex('active_user_preferences', 300, ...)
CacheTtl == 300

\* Payloads of create_user_preference: every column is written explicitly.
PrefPool ==
    { MkPref(None, Some(MaxPrice - 1), Some(2), dp, None, None, Some(2), None,
             None, None, None, PrefAmenityColumns) :
        dp \in {dp0 \in DistrictProfiles : dp0.acceptable # {}} }
    \cup
    { MkPref(Some(2), None, None, dp, Some(2), Some(2), None, None,
             Some(TRUE), None, None, PrefAmenityColumns) :
        dp \in {dp0 \in DistrictProfiles : dp0.preferred = Some(Districts)} }

ListingPool ==
    { MkListing(2, 2, MaxSize, "Mitte", Some(TRUE), None, None),
      MkListing(MaxPrice - 1, 2, 1, "Pankow", None, None, None) }

\* db.get_active_user_preferences(): the dict of the active rows, in the
\* order of the user ids.
RECURSIVE ActiveFrom(_, _)
ActiveFrom(table, u) ==
    IF u > MaxUsers THEN <<>>
    ELSE (IF table[u] = NoRow THEN <<>>
          ELSE <<[user_id |-> PyInt(u), preferences |-> table[u]]>>)
         \o ActiveFrom(table, u + 1)

get_active_user_preferences_db(table) == ActiveFrom(table, 1)

\* json.dumps turns an int key of a dict into a string.
JsonKey(k) == IF "int" \in DOMAIN k THEN PyStr(ToString(k.int)) ELSE k

\* json.loads(json.dumps(prefs)): the dict keys come back as strings.
JsonRoundTrip(prefs) ==
    [i \in DOMAIN prefs |->
        [user_id |-> JsonKey(prefs[i].user_id), preferences |-> prefs[i].preferences]]

RECURSIVE MatchingFrom(_, _, _)
MatchingFrom(listing, user_preferences, i) ==
    IF i > Len(user_preferences) THEN <<>>
    ELSE (IF listing_matches_preferences(listing, user_preferences[i].preferences)
          THEN <<[user_id |-> user_preferences[i].user_id,
                  preferences |-> user_preferences[i].preferences,
                  match_score |-> calculate_match_score(listing,
                                      user_preferences[i].preferences)]>>
          ELSE <<>>)
         \o MatchingFrom(listing, user_preferences, i + 1)

\* Faulty variant: the loop reads the table again instead of the dict it was given.
find_matching_users_Reread(listing, user_preferences) ==
    MatchingFrom(listing,
                 IF user_preferences # <<>> /\ "str" \in DOMAIN user_preferences[1].user_id
                 THEN JsonRoundTrip(get_active_user_preferences_db(db))
                 ELSE get_active_user_preferences_db(db), 1)

\* The loop of find_matching_users over the dict user_preferences.
find_matching_users(listing, user_preferences) ==
    MatchingFrom(listing, user_preferences, 1)

MatchInit == ScoreIdle /\ StoreIdle /\ MatchIdle /\ IndexIdle /\ DetectIdle /\ DispatchIdle /\ TimeIdle /\ PipeIdle

\* create_user_preference up to its first await: db.upsert_user_preferences
UpsertPreference(u, raw) ==
    /\ up_pc = "idle"
    /\ upserts < MaxUpserts
    /\ db' = [db EXCEPT ![u] = StoredRow(raw)]
    /\ up_data' = [user_id |-> u, preferences |-> StoredRow(raw)]
    /\ up_pc' = "cache"
    /\ upserts' = upserts + 1
    /\ changed_at' = [changed_at EXCEPT ![u] = Some(now)]
    /\ UNCHANGED <<cache, user_cache, scoreVars, matchVars, indexVars, detectVars, dispatchVars,
                   now, cache_expiry, m_started, pipeVars>>

\* create_user_preference: cache_user_preferences(user_id, preference_data)
CacheUserPreference ==
    /\ up_pc = "cache"
    /\ user_cache' = [user_cache EXCEPT ![up_data.user_id] = up_data.preferences]
    /\ up_pc' = "idle"
    /\ up_data' = NoRow
    /\ UNCHANGED <<db, cache, upserts, scoreVars, matchVars, indexVars, detectVars, dispatchVars, timeVars, pipeVars>>

\* setex(..., 300, ...): the entry is gone once its 5 minutes are over
CacheExpire ==
    /\ cache.present
    /\ cache' = NoCache
    /\ cache_expiry' = 0
    /\ UNCHANGED <<db, user_cache, up_pc, up_data, upserts, scoreVars, matchVars, indexVars, detectVars, dispatchVars,
                   now, changed_at, m_started, pipeVars>>

\* find_matching_users(listing) is called and awaits cache.get
MatchBegin(p, listing) ==
    /\ m_pc[p] = "idle"
    /\ m_pc' = [m_pc EXCEPT ![p] = "cache_get"]
    /\ m_listing' = [m_listing EXCEPT ![p] = listing]
    /\ m_prefs' = [m_prefs EXCEPT ![p] = <<>>]
    /\ m_snapshot' = [m_snapshot EXCEPT ![p] = <<>>]
    /\ m_results' = [m_results EXCEPT ![p] = <<>>]
    /\ m_started' = [m_started EXCEPT ![p] = now]
    /\ UNCHANGED <<scoreVars, storeVars, indexVars, detectVars, dispatchVars,
                   now, cache_expiry, changed_at, pipeVars>>

\* cache.get returns the cached dict: json.loads, then the whole loop
CacheGetHit(p) ==
    /\ m_pc[p] = "cache_get"
    /\ cache.present
    /\ m_snapshot' = [m_snapshot EXCEPT ![p] = JsonRoundTrip(cache.value)]
    /\ m_results' = [m_results EXCEPT ![p] =
                        find_matching_users(m_listing[p], JsonRoundTrip(cache.value))]
    /\ m_pc' = [m_pc EXCEPT ![p] = "done"]
    /\ UNCHANGED <<m_listing, m_prefs, scoreVars, storeVars, indexVars, detectVars, dispatchVars, timeVars, pipeVars>>

\* cache.get returns nothing: await db.get_active_user_preferences
CacheGetMiss(p) ==
    /\ m_pc[p] = "cache_get"
    /\ ~cache.present
    /\ m_pc' = [m_pc EXCEPT ![p] = "db_get"]
    /\ UNCHANGED <<m_listing, m_prefs, m_snapshot, m_results, scoreVars, storeVars, indexVars, detectVars, dispatchVars, timeVars, pipeVars>>

\* the database answers: prefs is bound, await cache.setex
DbGet(p) ==
    /\ m_pc[p] = "db_get"
    /\ m_prefs' = [m_prefs EXCEPT ![p] = get_active_user_preferences_db(db)]
    /\ m_pc' = [m_pc EXCEPT ![p] = "cache_set"]
    /\ UNCHANGED <<m_listing, m_snapshot, m_results, scoreVars, storeVars, indexVars, detectVars, dispatchVars, timeVars, pipeVars>>

\* cache.setex completes: prefs is returned and the whole loop runs
CacheSet(p) ==
    /\ m_pc[p] = "cache_set"
    /\ cache' = Cached(m_prefs[p])
    /\ cache_expiry' = now + CacheTtl
    /\ m_snapshot' = [m_snapshot EXCEPT ![p] = m_prefs[p]]
    /\ m_results' = [m_results EXCEPT ![p] = find_matching_users(m_listing[p], m_prefs[p])]
    /\ m_pc' = [m_pc EXCEPT ![p] = "done"]
    /\ UNCHANGED <<m_listing, m_prefs, db, user_cache, up_pc, up_data, upserts, scoreVars, indexVars, detectVars, dispatchVars,
                   now, changed_at, m_started, pipeVars>>

\* the caller has consumed matching_users
MatchEnd(p) ==
    /\ m_pc[p] = "done"
    /\ m_pc' = [m_pc EXCEPT ![p] = "idle"]
    /\ m_listing' = [m_listing EXCEPT ![p] = NoRow]
    /\ m_prefs' = [m_prefs EXCEPT ![p] = <<>>]
    /\ m_snapshot' = [m_snapshot EXCEPT ![p] = <<>>]
    /\ m_results' = [m_results EXCEPT ![p] = <<>>]
    /\ UNCHANGED <<scoreVars, storeVars, indexVars, detectVars, dispatchVars, timeVars, pipeVars>>

MatchNext ==
    \/ \E u \in Users, raw \in PrefPool : UpsertPreference(u, raw)
    \/ CacheUserPreference
    \/ CacheExpire
    \/ \E p \in Passes, listing \in ListingPool : MatchBegin(p, listing)
    \/ \E p \in Passes : CacheGetHit(p)
    \/ \E p \in Passes : CacheGetMiss(p)
    \/ \E p \in Passes : DbGet(p)
    \/ \E p \in Passes : CacheSet(p)
    \/ \E p \in Passes : MatchEnd(p)

SpecMatch == MatchInit /\ [][MatchNext]_vars

----------------------------------------------------------------------------
(* Properties of the matching pass (specification SpecMatch) *)

\* C5: every result of a finished pass is computed from the one dict the pass
\* acquired before its loop (user_preferences): each result carries the
\* preferences and the score of an entry of that dict, and each entry of it
\* that is not excluded has a result, whatever was written to the table or the
\* cache since.
C5_SingleSnapshot ==
    \A p \in Passes :
        m_pc[p] = "done" =>
            /\ \A i \in DOMAIN m_results[p] :
                  \E j \in DOMAIN m_snapshot[p] :
                      /\ m_results[p][i].user_id = m_snapshot[p][j].user_id
                      /\ m_results[p][i].preferences = m_snapshot[p][j].preferences
                      /\ score(m_listing[p], m_snapshot[p][j].preferences)
                            = Scored(m_results[p][i].match_score)
            /\ \A j \in DOMAIN m_snapshot[p] :
                  ~score(m_listing[p], m_snapshot[p][j].preferences).excluded
                      => \E i \in DOMAIN m_results[p] :
                            m_results[p][i].user_id = m_snapshot[p][j].user_id

\* A pass has finished with results after the table changed under it: the
\* rows now in the table would give other results.
C5_Witness ==
    \E p \in Passes :
        /\ m_pc[p] = "done"
        /\ m_results[p] # <<>>
        /\ m_snapshot[p] = m_prefs[p]
        /\ m_prefs[p] # get_active_user_preferences_db(db)
        /\ MatchingFrom(m_listing[p], get_active_user_preferences_db(db), 1) # m_results[p]

\* The user a key of the preference dict stands for.
UserOfKey(k) ==
    IF "int" \in DOMAIN k THEN k.int ELSE CHOOSE u \in Users : ToString(u) = k.str

\* C21 (as stated): the results of a finished pass hold one entry per
\* non-excluded entry of the dict and none for an excluded one, and they are
\* ordered by score descending, ties broken by ascending user_id.
C21_OrderedByScore ==
    \A p \in Passes :
        m_pc[p] = "done" =>
            /\ Len(m_results[p]) =
                  Cardinality({j \in DOMAIN m_snapshot[p] :
                      ~score(m_listing[p], m_snapshot[p][j].preferences).excluded})
            /\ \A i, j \in DOMAIN m_results[p] :
                  i < j =>
                      LET x == m_results[p][i]
                          y == m_results[p][j]
                      IN  \/ ~FracLeq(x.match_score, y.match_score)
                          \/ /\ FracEq(x.match_score, y.match_score)
                             /\ UserOfKey(x.user_id) < UserOfKey(y.user_id)

----------------------------------------------------------------------------
(* The matching pass under a clock (specification SpecStale): the entry    *)
(* 'active_user_preferences' lives for CacheTtl seconds after its setex.   *)

MaxTime == 400
TickSeconds == 100

\* rebuild_indexes_interval = 300  # 5 minutes
rebuild_indexes_interval == 300

\* Time passes; the cache drops the entry whose time to live is over.
Tick ==
    /\ now < MaxTime
    /\ now' = now + TickSeconds
    /\ cache' = IF cache.present /\ now' >= cache_expiry THEN NoCache ELSE cache
    /\ cache_expiry' = IF cache.present /\ now' >= cache_expiry THEN 0 ELSE cache_expiry
    /\ UNCHANGED <<db, user_cache, up_pc, up_data, upserts, scoreVars, matchVars, indexVars, detectVars, dispatchVars,
                   changed_at, m_started, pipeVars>>

StaleNext ==
    \/ \E u \in Users, raw \in PrefPool : UpsertPreference(u, raw)
    \/ CacheUserPreference
    \/ Tick
    \/ \E p \in Passes, listing \in ListingPool : MatchBegin(p, listing)
    \/ \E p \in Passes : CacheGetHit(p)
    \/ \E p \in Passes : CacheGetMiss(p)
    \/ \E p \in Passes : DbGet(p)
    \/ \E p \in Passes : CacheSet(p)
    \/ \E p \in Passes : MatchEnd(p)

SpecStale == MatchInit /\ [][StaleNext]_vars

\* The dict the pass works on holds this row for user u.
SnapshotHolds(p, u, row) ==
    \E j \in DOMAIN m_snapshot[p] :
        /\ m_snapshot[p][j].user_id \in {PyInt(u), JsonKey(PyInt(u))}
        /\ m_snapshot[p][j].preferences = row

\* C19: a pass that started more than the rebuild interval after the last
\* write of a user's preference works on that preference as it is stored.
C19_StalenessBounded ==
    \A p \in Passes, u \in Users :
        (/\ m_pc[p] = "done"
         /\ changed_at[u] # None
         /\ m_started[p] > changed_at[u][1] + rebuild_indexes_interval)
            => SnapshotHolds(p, u, db[u])

----------------------------------------------------------------------------
(* OptimizedMatcher (specification SpecIndex).  A Python str is the        *)
(* sequence of its characters.                                             *)

Digit == <<"0", "1", "2", "3", "4", "5", "6", "7", "8", "9">>

\* str(n) of a non-negative int
RECURSIVE StrOfNat(_)
StrOfNat(n) == IF n < 10 THEN <<Digit[n + 1]>> ELSE StrOfNat(n \div 10) \o <<Digit[(n % 10) + 1]>>

\* str(x) inside an f-string: None prints as "None"
StrOf(o) == IF o = None THEN <<"N", "o", "n", "e">> ELSE StrOfNat(Val(o))

\* price_key = f"{user.price_min}-{user.price_max}"
price_key(preferences) == StrOf(preferences.price_min) \o <<"-">> \o StrOf(preferences.price_max)

\* str.split(sep)
RECURSIVE SplitFrom(_, _, _, _)
SplitFrom(str, sep, i, piece) ==
    IF i > Len(str) THEN <<piece>>
    ELSE IF str[i] = sep THEN <<piece>> \o SplitFrom(str, sep, i + 1, <<>>)
    ELSE SplitFrom(str, sep, i + 1, Append(piece, str[i]))

Split(str, sep) == SplitFrom(str, sep, 1, <<>>)

DigitValue(ch) == (CHOOSE d \in 1..10 : Digit[d] = ch) - 1

IsDigit(ch) == \E d \in 1..10 : Digit[d] = ch

\* int(piece) succeeds on a non-empty run of digits
IsIntLiteral(piece) == piece # <<>> /\ \A i \in DOMAIN piece : IsDigit(piece[i])

RECURSIVE IntOf(_)
IntOf(piece) ==
    IF piece = <<>> THEN 0
    ELSE 10 * IntOf(SubSeq(piece, 1, Len(piece) - 1)) + DigitValue(piece[Len(piece)])

\* min_price, max_price = map(int, price_range.split('-'))
\* raises ValueError unless there are exactly two pieces and both are ints.
ParseRange(price_range) ==
    LET pieces == Split(price_range, "-")
    IN  IF Len(pieces) = 2 /\ IsIntLiteral(pieces[1]) /\ IsIntLiteral(pieces[2])
        THEN [ok |-> TRUE, min_price |-> IntOf(pieces[1]), max_price |-> IntOf(pieces[2])]
        ELSE [ok |-> FALSE]

\* get_active_users(): the active rows, in the order of the user ids
get_active_users(table) == get_active_user_preferences_db(table)

\* index[key].append(id) on a defaultdict(list)
DictAppend(index, key, id) ==
    [k \in (DOMAIN index) \cup {key} |->
        (IF k \in DOMAIN index THEN index[k] ELSE <<>>) \o (IF k = key THEN <<id>> ELSE <<>>)]

\* for district in user.preferred_districts: district_index[district].append(user.id)
DictAppendAll(index, keys, id) ==
    [k \in (DOMAIN index) \cup keys |->
        (IF k \in DOMAIN index THEN index[k] ELSE <<>>) \o (IF k \in keys THEN <<id>> ELSE <<>>)]

\* The loop of build_user_indexes from user i on.  Iterating a
\* preferred_districts that is None raises TypeError: the loop ends there,
\* after the price entry of that user was appended.
RECURSIVE BuildFrom(_, _, _)
BuildFrom(users, i, index) ==
    IF i > Len(users) THEN index
    ELSE IF users[i].preferences.preferred_districts = None
    THEN [price    |-> DictAppend(index.price, price_key(users[i].preferences),
                                  users[i].user_id),
          district |-> index.district,
          raised   |-> TRUE]
    ELSE BuildFrom(users, i + 1,
            [price    |-> DictAppend(index.price, price_key(users[i].preferences),
                                     users[i].user_id),
             district |-> DictAppendAll(index.district,
                                        Val(users[i].preferences.preferred_districts),
                                        users[i].user_id),
             raised   |-> FALSE])

\* Faulty variant: the two clear() calls are left out, the loop appends to
\* the lists of the previous build.
build_user_indexes_NoClear(users) ==
    BuildFrom(users, 1, [price |-> price_index, district |-> district_index, raised |-> FALSE])

\* build_user_indexes after its await: both indexes cleared, then filled
build_user_indexes(users) ==
    BuildFrom(users, 1, [price |-> EmptyDict, district |-> EmptyDict, raised |-> FALSE])

SeqRange(q) == {q[i] : i \in DOMAIN q}

\* get_candidate_users(listing): ValueError if a key of price_index does not
\* parse, else the set of the candidates
get_candidate_users(pidx, didx, listing) ==
    IF \E k \in DOMAIN pidx : ~ParseRange(k).ok
    THEN [ok |-> FALSE, users |-> {}]
    ELSE [ok |-> TRUE,
          users |-> UNION { SeqRange(pidx[k]) :
                              k \in {k0 \in DOMAIN pidx :
                                       /\ ParseRange(k0).min_price <= listing.price
                                       /\ listing.price <= ParseRange(k0).max_price} }
                    \cup (IF listing.district \in DOMAIN didx
                          THEN SeqRange(didx[listing.district]) ELSE {})]

\* Payloads of create_user_preference for the index: price ranges around 10,
\* one of them without a lower bound.
IndexPrefPool ==
    { MkPref(Some(8), Some(12), None, [preferred |-> Some({"Mitte"}), top |-> {"Mitte"},
                                        acceptable |-> {}],
             None, None, None, None, None, None, None, PrefAmenityColumns),
      MkPref(Some(11), Some(15), None, [preferred |-> Some({"Mitte", "Pankow"}), top |-> {},
                                         acceptable |-> {"Pankow"}],
             Some(2), Some(2), None, None, None, None, None, PrefAmenityColumns),
      MkPref(None, Some(10), None, [preferred |-> Some({"Pankow"}), top |-> {"Pankow"},
                                     acceptable |-> {}],
             None, None, None, None, None, None, None, PrefAmenityColumns),
      MkPref(Some(9), Some(14), None, [preferred |-> None, top |-> {}, acceptable |-> {}],
             None, None, None, None, None, None, None, PrefAmenityColumns) }

IndexListings ==
    { MkListing(10, 2, 1, "Mitte", None, None, None),
      MkListing(10, 2, 1, "Spandau", None, None, None),
      MkListing(13, 3, 1, "Pankow", None, None, None) }

IndexInit == ScoreIdle /\ StoreIdle /\ MatchIdle /\ IndexIdle /\ DetectIdle /\ DispatchIdle /\ TimeIdle /\ PipeIdle

\* build_user_indexes up to its await: users = await self.get_active_users()
RebuildFetch ==
    /\ rb_pc = "idle"
    /\ rb_users' = get_active_users(db)
    /\ rb_pc' = "fetched"
    /\ UNCHANGED <<price_index, district_index, ix_old, ix_input, obs,
                   scoreVars, storeVars, matchVars, detectVars, dispatchVars, timeVars, pipeVars>>

\* build_user_indexes from its await to its end: clear, clear, fill
RebuildApply ==
    /\ rb_pc = "fetched"
    /\ price_index' = build_user_indexes(rb_users).price
    /\ district_index' = build_user_indexes(rb_users).district
    /\ ix_old' = ix_input
    /\ ix_input' = rb_users
    /\ rb_users' = <<>>
    /\ rb_pc' = "idle"
    /\ UNCHANGED <<obs, scoreVars, storeVars, matchVars, detectVars, dispatchVars, timeVars, pipeVars>>

\* a reader calls get_candidate_users(listing)
CandidatesFor(listing) ==
    /\ obs' = [listing |-> listing,
               result |-> get_candidate_users(price_index, district_index, listing),
               old |-> ix_old,
               input |-> ix_input,
               rebuilding |-> (rb_pc = "fetched")]
    /\ UNCHANGED <<price_index, district_index, rb_pc, rb_users, ix_old, ix_input,
                   scoreVars, storeVars, matchVars, detectVars, dispatchVars, timeVars, pipeVars>>

IndexNext ==
    \/ \E u \in Users, raw \in IndexPrefPool : UpsertPreference(u, raw)
    \/ CacheUserPreference
    \/ RebuildFetch
    \/ RebuildApply
    \/ \E listing \in IndexListings : CandidatesFor(listing)

SpecIndex == IndexInit /\ [][IndexNext]_vars

----------------------------------------------------------------------------
(* Properties of the Preference Index (specification SpecIndex) *)

\* What get_candidate_users answers on an index that holds exactly the
\* preferences users: every user whose price range contains the price or who
\* lists the district; ValueError when some price key cannot be read back.
CompleteIndexAnswer(users, listing) ==
    IF \E j \in DOMAIN users :
           \/ users[j].preferences.price_min = None
           \/ users[j].preferences.price_max = None
    THEN [ok |-> FALSE, users |-> {}]
    ELSE [ok |-> TRUE,
          users |-> { users[j].user_id : j \in
                        { j0 \in DOMAIN users :
                            \/ /\ Val(users[j0].preferences.price_min) <= listing.price
                               /\ listing.price <= Val(users[j0].preferences.price_max)
                            \/ listing.district \in PreferredSet(users[j0].preferences) } }]

\* The build over users runs to its end.
BuildCompletes(users) ==
    \A j \in DOMAIN users : users[j].preferences.preferred_districts # None

\* C3 (as stated): after a rebuild over a set of active preferences,
\* candidatesFor(L) contains every user of that set whose preference passes
\* the exact price, rooms, size and amenity filters for L, users with an
\* unset price bound included.
C3_NoFalseNegatives ==
    (obs # NoRow /\ BuildCompletes(obs.input)) =>
        \A j \in DOMAIN obs.input :
            ~HardFilterFails(obs.listing, obs.input[j].preferences)
                => (obs.result.ok /\ obs.input[j].user_id \in obs.result.users)

\* C4 (as stated): every get_candidate_users call observes the complete old
\* index or the complete new one, never a cleared or partly filled index.
C4_ReadersSeeCompleteIndex ==
    obs # NoRow =>
        \/ obs.result = CompleteIndexAnswer(obs.old, obs.listing)
        \/ obs.result = CompleteIndexAnswer(obs.input, obs.listing)

----------------------------------------------------------------------------
(* Rebuilds over a changing set of active preferences (specification       *)
(* SpecRebuild): the steps of SpecIndex, and a user's row leaving the      *)
(* active set between two rebuilds.                                        *)

\* The user's row gets is_active = false (a soft deactivation):
\* db.get_active_user_preferences() no longer returns it.
DeactivatePreference(u) ==
    /\ db[u] # NoRow
    /\ db' = [db EXCEPT ![u] = NoRow]
    /\ UNCHANGED <<cache, user_cache, up_pc, up_data, upserts, scoreVars, matchVars,
                   indexVars, detectVars, dispatchVars, timeVars, pipeVars>>

\* Payload of create_user_preference for the rebuilds: the range 8-12 with
\* the district Mitte.  The listings cost 10, one in Mitte and one not.
RebuildPrefPool ==
    { raw \in IndexPrefPool : raw.price_min = Some(8) }

RebuildListings ==
    { listing \in IndexListings : listing.price = 10 }

RebuildNext ==
    \/ \E u \in Users, raw \in RebuildPrefPool : UpsertPreference(u, raw)
    \/ CacheUserPreference
    \/ \E u \in Users : DeactivatePreference(u)
    \/ RebuildFetch
    \/ RebuildApply
    \/ \E listing \in RebuildListings : CandidatesFor(listing)

SpecRebuild == IndexInit /\ [][RebuildNext]_vars

\* The user ids held anywhere in an index.
IndexedUsers(index) == UNION { SeqRange(index[k]) : k \in DOMAIN index }

\* The user ids of a rebuild's input.
InputUsers(users) == { users[j].user_id : j \in DOMAIN users }

\* No user id is held twice under one key.
NoRepeats(index) ==
    \A k \in DOMAIN index : Cardinality(SeqRange(index[k])) = Len(index[k])

\* C31: the index holds entries only for the users of the input of the most
\* recent rebuild, each at most once per key (nothing of an earlier rebuild
\* is kept), and get_candidate_users never returns a user who was absent
\* from that input.
C31_OnlyLastRebuildUsers ==
    /\ IndexedUsers(price_index) \subseteq InputUsers(ix_input)
    /\ IndexedUsers(district_index) \subseteq InputUsers(ix_input)
    /\ NoRepeats(price_index)
    /\ NoRepeats(district_index)
    /\ obs # NoRow => obs.result.users \subseteq InputUsers(obs.input)

\* Witness for C31: a user indexed by the previous rebuild was deactivated
\* before the most recent one, which still indexed another user; a listing
\* inside the deactivated user's price range and in one of their districts
\* is then looked up on the current index, and the call returns a set.
C31_Witness ==
    /\ obs # NoRow
    /\ obs.result.ok
    /\ obs.result.users # {}
    /\ obs.input = ix_input
    /\ obs.old = ix_old
    /\ ~obs.rebuilding
    /\ \E j \in DOMAIN obs.old :
          /\ obs.old[j].user_id \notin InputUsers(obs.input)
          /\ db[obs.old[j].user_id.int] = NoRow
          /\ obs.old[j].preferences.price_min # None
          /\ obs.old[j].preferences.price_max # None
          /\ Val(obs.old[j].preferences.price_min) <= obs.listing.price
          /\ obs.listing.price <= Val(obs.old[j].preferences.price_max)
          /\ obs.listing.district \in PreferredSet(obs.old[j].preferences)

----------------------------------------------------------------------------
(* Global Listing Monitor and Change Detector (specification SpecDetect).  *)
(* Each feed poller runs start_global_monitoring: it scans, runs detectNew *)
(* over the batch one record at a time, and hands the output to            *)
(* process_new_listings.                                                   *)

MaxPolls == 2

MaxBatch == 1

HashMod == 16

MkRaw(id, title, price, rooms, size_sqm, district) ==
    [external_id |-> id, title |-> title, price_eur |-> price, rooms |-> rooms,
     size_sqm |-> size_sqm, district |-> district]

\* The sightings a feed can return: a listing, the same listing re-titled,
\* the same listing re-priced, and a second listing.
FeedPool ==
    { MkRaw("X123", "a", 1, 2, 1, "Mitte"),
      MkRaw("X123", "b", 1, 2, 1, "Mitte"),
      MkRaw("X123", "a", 2, 2, 1, "Mitte"),
      MkRaw("X456", "a", 1, 2, 1, "Pankow") }

Batches == UNION { [1..n -> FeedPool] : n \in 1..MaxBatch }

\* The district string as a number entering the hash.
DistrictCode(d) ==
    CASE d = "Mitte" -> 1
      [] d = "Pankow" -> 2
      [] d = "Spandau" -> 3

\* Content hash over (price, rooms, size, district); the title is not hashed.
contentHash(r) ==
    (r.price_eur * 7 + r.rooms * 5 + r.size_sqm * 3 + DistrictCode(r.district)) % HashMod

\* Faulty variant: the stored hash is not compared.
Classify_HashIgnored(stored, h) ==
    IF stored = None THEN "new" ELSE "update"

\* Faulty variant: a changed record is taken for a first sighting.
Classify_ChangedIsNew(stored, h) ==
    IF stored = None THEN "new"
    ELSE IF Val(stored) = h THEN "duplicate"
    ELSE "new"

\* What a sighting is, given the stored hash of its key.
Classify(stored, h) ==
    IF stored = None THEN "new"
    ELSE IF Val(stored) = h THEN "duplicate"
    ELSE "update"

\* Faulty variant: the marker is read but never written.
MarkSeen_Forgets(store, id, h) == store

\* The write half of the compare-and-set on the per-key seen marker.
MarkSeen(store, id, h) == [store EXCEPT ![id] = Some(h)]

\* A raw record without a price cannot be normalized.
Malformed(r) == "price_eur" \notin DOMAIN r

\* Faulty variant: a malformed record ends the batch.
RestAfterMalformed_Abort(batch) == <<>>

\* detectNew goes on with the record after the malformed one.
RestAfterMalformed(batch) == Tail(batch)

\* Faulty variant: a re-sighting writes every column of the row again.
StoreSighting_Overwrites(row, r, t) ==
    IF row = NoRow
    THEN [external_id |-> r.external_id, title |-> r.title, price_eur |-> r.price_eur,
          rooms |-> r.rooms, size_sqm |-> r.size_sqm, district |-> r.district,
          first_seen_at |-> t, last_seen_at |-> t, is_active |-> TRUE]
    ELSE [external_id |-> r.external_id, title |-> r.title, price_eur |-> r.price_eur,
          rooms |-> r.rooms, size_sqm |-> r.size_sqm, district |-> r.district,
          first_seen_at |-> row.first_seen_at, last_seen_at |-> t, is_active |-> TRUE]

\* The listing row after a sighting at time t: created on the first
\* sighting, and on a re-sighting only last_seen_at and is_active are written.
StoreSighting(row, r, t) ==
    IF row = NoRow
    THEN [external_id |-> r.external_id, title |-> r.title, price_eur |-> r.price_eur,
          rooms |-> r.rooms, size_sqm |-> r.size_sqm, district |-> r.district,
          first_seen_at |-> t, last_seen_at |-> t, is_active |-> TRUE]
    ELSE [row EXCEPT !.last_seen_at = t, !.is_active = TRUE]

\* Faulty variant: the task is created whether store_listing returned or not.
task_created_Always(stored) == TRUE

\* asyncio.create_task is reached only when `await self.store_listing(listing)`
\* has returned
task_created(stored) == stored

MaxRetries == 1

\* Faulty variant: the retry budget is not consulted.
RetryAllowed_Always(retries) == TRUE

\* detectNew may retry the batch once more.
RetryAllowed(retries) == retries < MaxRetries

DetectInit == ScoreIdle /\ StoreIdle /\ MatchIdle /\ IndexIdle /\ DetectIdle /\ DispatchIdle /\ TimeIdle /\ PipeIdle

\* start_global_monitoring: scan_for_new_listings fetches a batch
Scan(p, batch) ==
    /\ dt_pc[p] = "sleep"
    /\ polls < MaxPolls
    /\ polls' = polls + 1
    /\ dt_batch' = [dt_batch EXCEPT ![p] = batch]
    /\ dt_out' = [dt_out EXCEPT ![p] = <<>>]
    /\ dt_pc' = [dt_pc EXCEPT ![p] = "detect"]
    /\ UNCHANGED <<seen, listings, match_tasks, detect_log,
                   scoreVars, storeVars, matchVars, indexVars, dispatchVars, failVars, timeVars, pipeVars>>

\* scan_for_new_listings fetches a batch and detectNew finds the backing
\* store unreachable: it backs off for a retry if the budget allows one
ScanUnreachable(p, batch) ==
    /\ dt_pc[p] = "sleep"
    /\ polls < MaxPolls
    /\ polls' = polls + 1
    /\ dt_batch' = [dt_batch EXCEPT ![p] = batch]
    /\ dt_out' = [dt_out EXCEPT ![p] = <<>>]
    /\ dt_pc' = [dt_pc EXCEPT ![p] = IF RetryAllowed(0) THEN "backoff" ELSE "error"]
    /\ dt_failed' = [dt_failed EXCEPT ![p] = IF RetryAllowed(0) THEN @ ELSE @ + 1]
    /\ UNCHANGED <<seen, listings, match_tasks, detect_log, dt_retries, dt_reported,
                   scoreVars, storeVars, matchVars, indexVars, dispatchVars, timeVars, pipeVars>>

\* a retry of the batch reaches the backing store
RetryConnects(p) ==
    /\ dt_pc[p] = "backoff"
    /\ dt_pc' = [dt_pc EXCEPT ![p] = "detect"]
    /\ dt_retries' = [dt_retries EXCEPT ![p] = 0]
    /\ UNCHANGED <<seen, dt_batch, dt_out, polls, listings, match_tasks, detect_log,
                   dt_failed, dt_reported, scoreVars, storeVars, matchVars, indexVars, dispatchVars, timeVars, pipeVars>>

\* a retry of the batch finds the store unreachable again: detectNew backs
\* off once more while the retry budget lasts, then raises
RetryUnreachable(p) ==
    /\ dt_pc[p] = "backoff"
    /\ dt_retries' = [dt_retries EXCEPT ![p] = @ + 1]
    /\ dt_pc' = [dt_pc EXCEPT ![p] =
                    IF RetryAllowed(dt_retries[p] + 1) THEN "backoff" ELSE "error"]
    /\ dt_failed' = [dt_failed EXCEPT ![p] =
                        IF RetryAllowed(dt_retries[p] + 1) THEN @ ELSE @ + 1]
    /\ UNCHANGED <<seen, dt_batch, dt_out, polls, listings, match_tasks, detect_log,
                   dt_reported, scoreVars, storeVars, matchVars, indexVars, dispatchVars, timeVars, pipeVars>>

\* except Exception as e: await self.handle_monitoring_error(e); the while
\* loop then goes on to the next scan
HandleMonitoringError(p) ==
    /\ dt_pc[p] = "error"
    /\ dt_reported' = [dt_reported EXCEPT ![p] = @ + 1]
    /\ dt_retries' = [dt_retries EXCEPT ![p] = 0]
    /\ dt_batch' = [dt_batch EXCEPT ![p] = <<>>]
    /\ dt_pc' = [dt_pc EXCEPT ![p] = "sleep"]
    /\ UNCHANGED <<seen, dt_out, polls, listings, match_tasks, detect_log, dt_failed,
                   scoreVars, storeVars, matchVars, indexVars, dispatchVars, timeVars, pipeVars>>

\* detectNew, one record: a malformed payload is logged and skipped; for a
\* well-formed one, compare-and-set on the record's seen marker and the
\* write of its listing row
DetectRecord(p) ==
    /\ dt_pc[p] = "detect"
    /\ dt_batch[p] # <<>>
    /\ LET r == Head(dt_batch[p])
           h == contentHash(r)
           stored == seen[r.external_id]
           verdict == Classify(stored, h)
           racing == /\ verdict = "new"
                     /\ \E q \in Pollers \ {p} :
                            /\ dt_pc[q] = "detect"
                            /\ \E i \in 1..Len(dt_batch[q]) :
                                   dt_batch[q][i].external_id = r.external_id
       IN IF Malformed(r)
          THEN /\ skipped' = skipped \cup {r}
               /\ dt_batch' = [dt_batch EXCEPT ![p] = RestAfterMalformed(@)]
               /\ UNCHANGED <<seen, dt_out, detect_log, listing_rows>>
          ELSE /\ seen' = MarkSeen(seen, r.external_id, h)
               /\ dt_out' = [dt_out EXCEPT ![p] =
                                IF verdict = "duplicate" THEN @
                                ELSE Append(@, [listing |-> r, kind |-> verdict])]
               /\ detect_log' = detect_log \cup
                      {[external_id |-> r.external_id, verdict |-> verdict, racing |-> racing,
                        revived |-> /\ listing_rows[r.external_id] # NoRow
                                    /\ ~listing_rows[r.external_id].is_active]}
               /\ listing_rows' = [listing_rows EXCEPT
                                      ![r.external_id] = StoreSighting(@, r, now)]
               /\ dt_batch' = [dt_batch EXCEPT ![p] = Tail(@)]
               /\ UNCHANGED skipped
    /\ UNCHANGED <<dt_pc, polls, listings, match_tasks,
                   scoreVars, storeVars, matchVars, indexVars, dispatchVars, failVars, timeVars,
                   store_log, task_pc, task_results, user_matches, pl_intents>>

\* detectNew returns; `if new_listings:` decides whether processing runs
DetectReturn(p) ==
    /\ dt_pc[p] = "detect"
    /\ dt_batch[p] = <<>>
    /\ dt_pc' = [dt_pc EXCEPT ![p] = IF dt_out[p] # <<>> THEN "process" ELSE "sleep"]
    /\ UNCHANGED <<seen, dt_batch, dt_out, polls, listings, match_tasks,
                   detect_log, scoreVars, storeVars, matchVars, indexVars, dispatchVars, failVars, timeVars, pipeVars>>

\* process_new_listings, one listing: store_listing returns, then create_task
ProcessListing(p) ==
    /\ dt_pc[p] = "process"
    /\ dt_out[p] # <<>>
    /\ listings' = listings \cup {Head(dt_out[p]).listing.external_id}
    /\ store_log' = Append(store_log, [listing |-> Head(dt_out[p]).listing, ok |-> TRUE])
    /\ match_tasks' = IF task_created(TRUE) THEN Append(match_tasks, Head(dt_out[p]))
                      ELSE match_tasks
    /\ task_pc' = IF task_created(TRUE) THEN Append(task_pc, "spawned") ELSE task_pc
    /\ task_results' = IF task_created(TRUE) THEN Append(task_results, <<>>)
                       ELSE task_results
    /\ dt_out' = [dt_out EXCEPT ![p] = Tail(@)]
    /\ UNCHANGED <<seen, dt_pc, dt_batch, polls, detect_log,
                   scoreVars, storeVars, matchVars, indexVars, dispatchVars, failVars, timeVars,
                   listing_rows, skipped, user_matches, pl_intents>>

\* process_new_listings, one listing: store_listing raises; the exception
\* leaves the loop and start_global_monitoring catches it
StoreListingFails(p) ==
    /\ dt_pc[p] = "process"
    /\ dt_out[p] # <<>>
    /\ store_log' = Append(store_log, [listing |-> Head(dt_out[p]).listing, ok |-> FALSE])
    /\ match_tasks' = IF task_created(FALSE) THEN Append(match_tasks, Head(dt_out[p]))
                      ELSE match_tasks
    /\ task_pc' = IF task_created(FALSE) THEN Append(task_pc, "spawned") ELSE task_pc
    /\ task_results' = IF task_created(FALSE) THEN Append(task_results, <<>>)
                       ELSE task_results
    /\ dt_pc' = [dt_pc EXCEPT ![p] = "error"]
    /\ UNCHANGED <<seen, dt_batch, dt_out, polls, listings, detect_log,
                   scoreVars, storeVars, matchVars, indexVars, dispatchVars, failVars, timeVars,
                   listing_rows, skipped, user_matches, pl_intents>>

\* process_new_listings returns; the poller sleeps for get_poll_interval()
ProcessReturn(p) ==
    /\ dt_pc[p] = "process"
    /\ dt_out[p] = <<>>
    /\ dt_pc' = [dt_pc EXCEPT ![p] = "sleep"]
    /\ UNCHANGED <<seen, dt_batch, dt_out, polls, listings, match_tasks,
                   detect_log, scoreVars, storeVars, matchVars, indexVars, dispatchVars, failVars, timeVars, pipeVars>>

DetectNext ==
    \/ \E p \in Pollers, batch \in Batches : Scan(p, batch)
    \/ \E p \in Pollers : DetectRecord(p)
    \/ \E p \in Pollers : DetectReturn(p)
    \/ \E p \in Pollers : ProcessListing(p)
    \/ \E p \in Pollers : ProcessReturn(p)

\* The store is reachable throughout.
SpecDetect == DetectInit /\ [][DetectNext]_vars

\* The store may be unreachable when detectNew starts on a batch.
RetryNext ==
    \/ DetectNext
    \/ \E p \in Pollers, batch \in Batches : ScanUnreachable(p, batch)
    \/ \E p \in Pollers : RetryConnects(p)
    \/ \E p \in Pollers : RetryUnreachable(p)
    \/ \E p \in Pollers : HandleMonitoringError(p)

SpecRetry == DetectInit /\ [][RetryNext]_vars

----------------------------------------------------------------------------
(* The pipeline of one monitor (specification SpecPipeline): the monitor   *)
(* loop scans, detects and stores, and every task it creates matches the   *)
(* listing, records the matches in user_matches and hands them on.         *)

PipelineMonitor == "html_search"

\* A payload the parser cannot normalize: it has no price.
MalformedRaw == [external_id |-> "X456", title |-> "a"]

\* The batches the feed returns.
PipelineBatches ==
    { <<MkRaw("X123", "a", 1, 2, 1, "Mitte")>>,
      <<MkRaw("X123", "a", 2, 2, 1, "Mitte")>>,
      <<MalformedRaw, MkRaw("X456", "a", 1, 2, 1, "Pankow")>>,
      <<MkRaw("X123", "a", 1, 2, 1, "Mitte"), MkRaw("X456", "a", 1, 2, 1, "Pankow")>> }

\* The active preferences of the run: user 1 takes listings up to
\* MaxPrice - 1 with an ideal price of 2, the others take listings from 2 on.
PipelineTable ==
    [u \in Users |->
        IF u = 1
        THEN StoredRow(MkPref(None, Some(MaxPrice - 1), Some(2),
                 [preferred |-> Some({"Mitte", "Pankow"}), top |-> {"Mitte"},
                  acceptable |-> {"Pankow"}],
                 None, None, Some(2), None, None, None, None, PrefAmenityColumns))
        ELSE StoredRow(MkPref(Some(2), None, None,
                 [preferred |-> Some({"Mitte", "Pankow"}), top |-> {"Mitte"},
                  acceptable |-> {"Pankow"}],
                 None, None, None, None, None, None, None, PrefAmenityColumns))]

\* The Listing a normalized record is matched as.
ListingOf(r) == MkListing(r.price_eur, r.rooms, r.size_sqm, r.district, None, None, None)

MkMatchRow(id, user_id, listing_id, match_score) ==
    [id |-> id, user_id |-> user_id, listing_id |-> listing_id, match_score |-> match_score]

\* Faulty variant: every result is inserted as a row of its own.
RecordMatch_Insert(table, m, listing_id) ==
    table \cup {MkMatchRow(Cardinality(table) + 1, m.user_id, listing_id, m.match_score)}

\* One result is written to user_matches: the row of its (user_id,
\* listing_id) is replaced if there is one, inserted otherwise.
RecordMatch(table, m, listing_id) ==
    LET old == {r \in table : r.user_id = m.user_id /\ r.listing_id = listing_id}
    IN  IF old = {}
        THEN table \cup {MkMatchRow(Cardinality(table) + 1, m.user_id, listing_id,
                                    m.match_score)}
        ELSE (table \ old) \cup {[r EXCEPT !.match_score = m.match_score] : r \in old}

RECURSIVE RecordFrom(_, _, _, _)
RecordFrom(table, results, listing_id, i) ==
    IF i > Len(results) THEN table
    ELSE RecordFrom(RecordMatch(table, results[i], listing_id), results, listing_id, i + 1)

\* match_against_users: matching_users = await find_matching_users(listing)
TaskMatch(k) ==
    /\ task_pc[k] = "spawned"
    /\ task_results' = [task_results EXCEPT ![k] =
                            find_matching_users(ListingOf(match_tasks[k].listing),
                                get_active_user_preferences_db(PipelineTable))]
    /\ task_pc' = [task_pc EXCEPT ![k] = "matched"]
    /\ UNCHANGED <<scoreVars, storeVars, matchVars, indexVars, detectVars, dispatchVars, timeVars,
                   listing_rows, skipped, store_log, user_matches, pl_intents>>

\* match_against_users: the user_matches rows of the results are written
TaskRecord(k) ==
    /\ task_pc[k] = "matched"
    /\ user_matches' = RecordFrom(user_matches, task_results[k],
                                  match_tasks[k].listing.external_id, 1)
    /\ task_pc' = [task_pc EXCEPT ![k] = "recorded"]
    /\ UNCHANGED <<scoreVars, storeVars, matchVars, indexVars, detectVars, dispatchVars, timeVars,
                   listing_rows, skipped, store_log, task_results, pl_intents>>

\* match_against_users: the loop over matching_users hands every match to
\* notify_user_of_match
TaskDispatch(k) ==
    /\ task_pc[k] = "recorded"
    /\ pl_intents' = pl_intents \cup
           {[listing |-> match_tasks[k].listing.external_id,
             user_id |-> task_results[k][i].user_id] : i \in DOMAIN task_results[k]}
    /\ task_pc' = [task_pc EXCEPT ![k] = "done"]
    /\ UNCHANGED <<scoreVars, storeVars, matchVars, indexVars, detectVars, dispatchVars, timeVars,
                   listing_rows, skipped, store_log, task_results, user_matches>>

\* The event loop is stopped: the monitor loops and every task that has not
\* ended are cancelled where they await.
Shutdown ==
    /\ \E p \in Pollers : dt_pc[p] # "stopped"
    /\ dt_pc' = [p \in Pollers |-> "stopped"]
    /\ task_pc' = [k \in DOMAIN task_pc |->
                      IF task_pc[k] = "done" THEN "done" ELSE "cancelled"]
    /\ UNCHANGED <<seen, dt_batch, dt_out, polls, listings, match_tasks, detect_log, failVars,
                   scoreVars, storeVars, matchVars, indexVars, dispatchVars, timeVars,
                   listing_rows, skipped, store_log, task_results, user_matches, pl_intents>>

PipelineNext ==
    \/ \E batch \in PipelineBatches : Scan(PipelineMonitor, batch)
    \/ DetectRecord(PipelineMonitor)
    \/ DetectReturn(PipelineMonitor)
    \/ ProcessListing(PipelineMonitor)
    \/ StoreListingFails(PipelineMonitor)
    \/ ProcessReturn(PipelineMonitor)
    \/ HandleMonitoringError(PipelineMonitor)
    \/ \E k \in DOMAIN task_pc : TaskMatch(k)
    \/ \E k \in DOMAIN task_pc : TaskRecord(k)
    \/ \E k \in DOMAIN task_pc : TaskDispatch(k)
    \/ Shutdown

SpecPipeline == DetectInit /\ [][PipelineNext]_vars

----------------------------------------------------------------------------
(* The Change Detector store over time (specification SpecStore): one      *)
(* monitor sights listings while the clock runs, and the sweep deactivates *)
(* a listing that has not been sighted for longer than the staleness       *)
(* window.                                                                 *)

StalenessWindow == 200

\* Faulty variant: deactivating a listing drops its seen marker.
SeenAfterDeactivate_Forgets(store, id) == [store EXCEPT ![id] = None]

\* The seen store after a listing was deactivated: the marker stays.
SeenAfterDeactivate(store, id) == store

\* The sweep: a listing absent from the feed beyond the staleness window is
\* deactivated.
SweepDeactivate(id) ==
    /\ listing_rows[id] # NoRow
    /\ listing_rows[id].is_active
    /\ now - listing_rows[id].last_seen_at > StalenessWindow
    /\ \A p \in Pollers : dt_pc[p] = "sleep"
    /\ listing_rows' = [listing_rows EXCEPT ![id].is_active = FALSE]
    /\ seen' = SeenAfterDeactivate(seen, id)
    /\ UNCHANGED <<dt_pc, dt_batch, dt_out, polls, listings, match_tasks, detect_log, failVars,
                   scoreVars, storeVars, matchVars, indexVars, dispatchVars, timeVars,
                   skipped, store_log, task_pc, task_results, user_matches, pl_intents>>

StoreNext ==
    \/ \E batch \in Batches : Scan(PipelineMonitor, batch)
    \/ DetectRecord(PipelineMonitor)
    \/ DetectReturn(PipelineMonitor)
    \/ ProcessListing(PipelineMonitor)
    \/ ProcessReturn(PipelineMonitor)
    \/ Tick
    \/ \E id \in ExternalIds : SweepDeactivate(id)

SpecStore == DetectInit /\ [][StoreNext]_vars

----------------------------------------------------------------------------
(* Properties of the Change Detector (specification SpecDetect) *)

\* The "new listing" events for one external_id in a sequence of events.
NewEvents(events, id) ==
    Cardinality({i \in 1..Len(events) :
                    events[i].kind = "new" /\ events[i].listing.external_id = id})

\* "New listing" events detectNew has put out that process_new_listings has
\* not yet handed to the Matching Engine.
PendingNew(id) ==
    Cardinality({pi \in Pollers \X (1..MaxBatch) :
                    /\ pi[2] <= Len(dt_out[pi[1]])
                    /\ dt_out[pi[1]][pi[2]].kind = "new"
                    /\ dt_out[pi[1]][pi[2]].listing.external_id = id})

Quiescent == \A p \in Pollers : dt_pc[p] = "sleep"

C2_UnchangedDropped ==
    [][\A p \in Pollers :
          ( /\ dt_pc[p] = "detect"
            /\ dt_batch[p] # <<>>
            /\ dt_batch'[p] = Tail(dt_batch[p])
            /\ seen[Head(dt_batch[p]).external_id] = Some(contentHash(Head(dt_batch[p]))) )
          => (dt_out'[p] = dt_out[p] /\ match_tasks' = match_tasks)]_vars

\* Every poll has run, an unchanged re-sighting was handled, and one event
\* in all reached the Matching Engine.
C2_Witness ==
    /\ Quiescent
    /\ polls = MaxPolls
    /\ \E e \in detect_log : e.verdict = "duplicate"
    /\ Len(match_tasks) = 1

----------------------------------------------------------------------------
(* Notification and application system (specification SpecDispatch).      *)
(* One match_against_users task per listing walks matching_users as the    *)
(* loop of process_new_listing does and calls notify_user_of_match for     *)
(* each match, which sends the notifications and triggers the application. *)

DefaultAutoApplyThreshold == 80

SmsScoreFloor == 80

MatchScores == {79, 80, 81}

DispatchUsers == {1, 2}

\* get_user(user_id): the user's row
get_user(user_id) ==
    IF user_id = 1
    THEN [id |-> 1, notification_methods |-> {"email", "sms"},
          auto_apply_enabled |-> TRUE, auto_apply_threshold |-> DefaultAutoApplyThreshold]
    ELSE [id |-> user_id, notification_methods |-> {"push"},
          auto_apply_enabled |-> FALSE, auto_apply_threshold |-> DefaultAutoApplyThreshold]

\* What find_matching_users can have returned for a listing: matches in
\* ascending user_id, each with its score.
MatchLists ==
    { q \in UNION { [1..n -> [user_id : DispatchUsers, match_score : MatchScores]] :
                        n \in 0..Cardinality(DispatchUsers) } :
        \A i \in 1..(Len(q) - 1) : q[i].user_id < q[i + 1].user_id }

\* How many attempts in a row a collaborator fails for an intent before it
\* succeeds.
ServiceFailures == {0, 3}

\* notification_tasks of notify_user_of_match, as the set of channels
NotificationChannels(user, match_score) ==
    (user.notification_methods \cap {"email", "push"})
        \cup (IF "sms" \in user.notification_methods /\ match_score > SmsScoreFloor
              THEN {"sms"} ELSE {})

\* Faulty variant: the threshold is exclusive.
ShouldAutoApply_Exclusive(user, match_score) ==
    user.auto_apply_enabled /\ match_score > user.auto_apply_threshold

\* if user.auto_apply_enabled and match_score >= user.auto_apply_threshold
ShouldAutoApply(user, match_score) ==
    user.auto_apply_enabled /\ match_score >= user.auto_apply_threshold

\* notify_user_of_match persists nothing about a send that raised.
dead_letter_records == {}

MkIntent(kind, listing, user_id, channel) ==
    [kind |-> kind, listing |-> listing, user_id |-> user_id, channel |-> channel,
     attempts |-> 0, fails_first |-> 0, state |-> "pending"]

\* The intent after its one attempt, against a collaborator that fails the
\* first k attempts.
Attempted(i, k) ==
    [i EXCEPT !.attempts = 1, !.fails_first = k,
              !.state = IF k = 0 THEN "delivered" ELSE "failed"]

MkCall(listing, m, outcome) ==
    [listing |-> listing, user_id |-> m.user_id, match_score |-> m.match_score,
     outcome |-> outcome]

CallEnds(calls, listing, m, outcome) ==
    (calls \ {MkCall(listing, m, "running")}) \cup {MkCall(listing, m, outcome)}

\* The notification intents of the call a task is in.
CurrentSends(t) ==
    {i \in intents : i.kind = "notification" /\ i.listing = t
                        /\ i.user_id = d_cur[t].user_id}

\* Faulty variant: gather(..., return_exceptions=True) returns once every
\* send has ended, whether it returned or raised.
gather_returns_ReturnExceptions(sends) == \A i \in sends : i.state # "pending"

\* await asyncio.gather(*notification_tasks) returns: every send has returned
gather_returns(sends) == \A i \in sends : i.state = "delivered"

DispatchInit ==
    /\ ScoreIdle /\ StoreIdle /\ MatchIdle /\ IndexIdle /\ DetectIdle /\ TimeIdle /\ PipeIdle
    /\ d_matches \in [DispatchListings -> MatchLists]
    /\ d_queue = d_matches
    /\ d_pc = [t \in DispatchListings |-> "loop"]
    /\ d_cur = [t \in DispatchListings |-> NoRow]
    /\ intents = {}
    /\ d_calls = {}

\* for user in matching_users: notify_user_of_match up to asyncio.gather
NotifyBegin(t) ==
    /\ d_pc[t] = "loop"
    /\ d_queue[t] # <<>>
    /\ LET m == Head(d_queue[t])
           user == get_user(m.user_id)
       IN /\ intents' = intents \cup
                 {MkIntent("notification", t, m.user_id, c) :
                     c \in NotificationChannels(user, m.match_score)}
          /\ d_cur' = [d_cur EXCEPT ![t] = m]
          /\ d_calls' = d_calls \cup {MkCall(t, m, "running")}
    /\ d_queue' = [d_queue EXCEPT ![t] = Tail(@)]
    /\ d_pc' = [d_pc EXCEPT ![t] = "gather"]
    /\ UNCHANGED <<d_matches, scoreVars, storeVars, matchVars, indexVars, detectVars, timeVars, pipeVars>>

\* one send_*_notification coroutine ends: it returns or it raises
SendCompletes(i, k) ==
    /\ i.kind = "notification"
    /\ i.state = "pending"
    /\ intents' = (intents \ {i}) \cup {Attempted(i, k)}
    /\ UNCHANGED <<d_pc, d_matches, d_queue, d_cur, d_calls,
                   scoreVars, storeVars, matchVars, indexVars, detectVars, timeVars, pipeVars>>

\* asyncio.gather returns: every send returned; then the auto-application test
GatherReturn(t) ==
    /\ d_pc[t] = "gather"
    /\ gather_returns(CurrentSends(t))
    /\ IF ShouldAutoApply(get_user(d_cur[t].user_id), d_cur[t].match_score)
       THEN /\ intents' = intents \cup
                   {MkIntent("application", t, d_cur[t].user_id, "queue")}
            /\ d_pc' = [d_pc EXCEPT ![t] = "apply"]
            /\ UNCHANGED <<d_cur, d_calls, timeVars, pipeVars>>
       ELSE /\ d_pc' = [d_pc EXCEPT ![t] = "loop"]
            /\ d_calls' = CallEnds(d_calls, t, d_cur[t], "returned")
            /\ d_cur' = [d_cur EXCEPT ![t] = NoRow]
            /\ UNCHANGED intents
    /\ UNCHANGED <<d_matches, d_queue, scoreVars, storeVars, matchVars, indexVars, detectVars, timeVars, pipeVars>>

\* asyncio.gather raises the exception of a send: notify_user_of_match and
\* the loop around it end there; the other sends go on
GatherRaise(t) ==
    /\ d_pc[t] = "gather"
    /\ \E i \in CurrentSends(t) : i.state = "failed"
    /\ d_pc' = [d_pc EXCEPT ![t] = "raised"]
    /\ d_calls' = CallEnds(d_calls, t, d_cur[t], "raised")
    /\ d_cur' = [d_cur EXCEPT ![t] = NoRow]
    /\ UNCHANGED <<d_matches, d_queue, intents,
                   scoreVars, storeVars, matchVars, indexVars, detectVars, timeVars, pipeVars>>

\* trigger_auto_application: queue_application returns or raises
ApplicationCompletes(t, k) ==
    /\ d_pc[t] = "apply"
    /\ LET i == MkIntent("application", t, d_cur[t].user_id, "queue")
       IN intents' = (intents \ {i}) \cup {Attempted(i, k)}
    /\ d_pc' = [d_pc EXCEPT ![t] = IF k = 0 THEN "loop" ELSE "raised"]
    /\ d_calls' = CallEnds(d_calls, t, d_cur[t], IF k = 0 THEN "returned" ELSE "raised")
    /\ d_cur' = [d_cur EXCEPT ![t] = NoRow]
    /\ UNCHANGED <<d_matches, d_queue, scoreVars, storeVars, matchVars, indexVars, detectVars, timeVars, pipeVars>>

\* the loop over matching_users is through
LoopEnd(t) ==
    /\ d_pc[t] = "loop"
    /\ d_queue[t] = <<>>
    /\ d_pc' = [d_pc EXCEPT ![t] = "done"]
    /\ UNCHANGED <<d_matches, d_queue, d_cur, intents, d_calls,
                   scoreVars, storeVars, matchVars, indexVars, detectVars, timeVars, pipeVars>>

DispatchNext ==
    \/ \E t \in DispatchListings : NotifyBegin(t)
    \/ \E i \in intents, k \in ServiceFailures : SendCompletes(i, k)
    \/ \E t \in DispatchListings : GatherReturn(t)
    \/ \E t \in DispatchListings : GatherRaise(t)
    \/ \E t \in DispatchListings, k \in ServiceFailures : ApplicationCompletes(t, k)
    \/ \E t \in DispatchListings : LoopEnd(t)

SpecDispatch == DispatchInit /\ [][DispatchNext]_vars

----------------------------------------------------------------------------
(* Properties of the Action Dispatcher (specification SpecDispatch) *)

\* The calls of notify_user_of_match that have returned or raised.
EndedCalls == {c \in d_calls : c.outcome # "running"}

IntentsOf(c, kind) ==
    {i \in intents : i.kind = kind /\ i.listing = c.listing /\ i.user_id = c.user_id}

\* The auto-apply rule as the design states it.
AutoApplyDue(c) ==
    /\ get_user(c.user_id).auto_apply_enabled
    /\ c.match_score >= get_user(c.user_id).auto_apply_threshold

C13_FullChannelSet ==
    /\ \A c \in d_calls :
          {i.channel : i \in IntentsOf(c, "notification")}
              = get_user(c.user_id).notification_methods
    /\ \A i \in intents :
          \E k \in DOMAIN d_matches[i.listing] : d_matches[i.listing][k].user_id = i.user_id

\* Every task has ended and no send is in flight.
DispatchQuiescent ==
    /\ \A t \in DispatchListings : d_pc[t] \in {"done", "raised"}
    /\ \A i \in intents : i.state # "pending"

\* C14 (as stated): no intent is lost; an intent whose call failed is
\* persisted as a dead-letter record, so no state has a failed intent that is
\* recorded nowhere.
C14_NoIntentLost ==
    \A i \in intents :
        i.state = "failed" => \E r \in dead_letter_records : r = i

\* C15 (as stated): a failed notification or application call for one user
\* aborts neither the loop over users nor the other listings; once
\* everything has ended, every match of every listing has been dispatched.
C15_FailureIsolated ==
    DispatchQuiescent =>
        \A t \in DispatchListings :
            \A k \in DOMAIN d_matches[t] :
                \E c \in d_calls : c.listing = t /\ c.user_id = d_matches[t][k].user_id

\* C16 (as stated): a notification whose collaborator fails three attempts
\* in a row and succeeds after that ends up delivered, by one dispatch, with
\* no dead-letter record.
C16_DeliveredAfterThreeFailures ==
    DispatchQuiescent =>
        \A i \in intents :
            (i.kind = "notification" /\ i.fails_first = 3) =>
                /\ i.state = "delivered"
                /\ i \notin dead_letter_records

\* C29: the application intent of a match is enqueued only after every
\* notification send of that match has returned without an error: in every
\* state, a match that has an application intent has no notification send
\* pending or failed, so a match with a failed send never gets one.
C29_ApplyOnlyAfterSends ==
    \A a \in intents :
        a.kind = "application" =>
            \A i \in intents :
                (i.kind = "notification" /\ i.listing = a.listing /\ i.user_id = a.user_id)
                    => i.state = "delivered"

\* Both cases have happened for matches of an auto-apply user at or above
\* the threshold: one call raised on a failed send and left no application
\* intent, another enqueued the application after its two sends returned.
C29_Witness ==
    \E c \in EndedCalls, b \in d_calls :
        /\ AutoApplyDue(c)
        /\ c.outcome = "raised"
        /\ \E i \in IntentsOf(c, "notification") : i.state = "failed"
        /\ IntentsOf(c, "application") = {}
        /\ AutoApplyDue(b)
        /\ Cardinality(IntentsOf(b, "notification")) = 2
        /\ IntentsOf(b, "application") # {}

\* C24 (as stated): every result of find_matching_users is consumed exactly
\* once by the dispatcher, with the score it was created with: once
\* everything has ended, each match of each listing has exactly one
\* notify_user_of_match call, and that call carries the match's score.
C24_ConsumedExactlyOnce ==
    DispatchQuiescent =>
        \A t \in DispatchListings :
            \A k \in DOMAIN d_matches[t] :
                /\ Cardinality({c \in EndedCalls :
                        c.listing = t /\ c.user_id = d_matches[t][k].user_id}) = 1
                /\ \A c \in EndedCalls :
                        (c.listing = t /\ c.user_id = d_matches[t][k].user_id)
                            => c.match_score = d_matches[t][k].match_score

----------------------------------------------------------------------------
(* Properties of the poller under an unreachable store (specification     *)
(* SpecRetry)                                                              *)

\* C17: when the backing store is unreachable during detectNew the batch is
\* retried at most MaxRetries times; detectNew gives up only with the budget
\* used up, each batch given up is reported exactly once, and a poller that
\* is not waiting for its report has none outstanding, so it goes on to its
\* next scan.
C17_BoundedRetryThenReport ==
    \A p \in Pollers :
        /\ dt_retries[p] <= MaxRetries
        /\ dt_pc[p] = "error" => dt_retries[p] = MaxRetries
        /\ dt_failed[p] = dt_reported[p] + (IF dt_pc[p] = "error" THEN 1 ELSE 0)

\* A poller gave up on a batch, reported it, and is now processing the
\* output of a later batch.
C17_Witness ==
    \E p \in Pollers :
        /\ dt_reported[p] = 1
        /\ dt_failed[p] = 1
        /\ dt_pc[p] = "process"

----------------------------------------------------------------------------
(* Properties of the pipeline (specification SpecPipeline) *)

RowsOf(table, user_id, listing_id) ==
    {r \in table : r.user_id = user_id /\ r.listing_id = listing_id}

\* C22: user_matches never holds two rows for one (user_id, listing_id), and
\* when a task writes its results, the row of each result's pair is the one
\* row of that pair and carries the score of that result: a listing matched
\* again replaces the earlier row.
C22_OneRowPerPair ==
    [][ /\ \A a, b \in user_matches' :
              (a.user_id = b.user_id /\ a.listing_id = b.listing_id) => a = b
        /\ \A k \in DOMAIN task_pc :
              (task_pc[k] = "matched" /\ task_pc'[k] = "recorded") =>
                  \A i \in DOMAIN task_results[k] :
                      \E r \in user_matches' :
                          /\ RowsOf(user_matches', task_results[k][i].user_id,
                                    match_tasks[k].listing.external_id) = {r}
                          /\ r.match_score = task_results[k][i].match_score
      ]_vars

\* A listing was matched, re-emitted as an update at another price and
\* matched again: both tasks have written their rows, the pair of user 1 has
\* one row, and it carries the score of the update.
C22_Witness ==
    \E j, k \in DOMAIN task_pc :
        /\ j < k
        /\ match_tasks[j].listing.external_id = match_tasks[k].listing.external_id
        /\ match_tasks[j].kind = "new"
        /\ match_tasks[k].kind = "update"
        /\ task_pc[j] = "done"
        /\ task_pc[k] = "done"
        /\ task_results[j] # <<>>
        /\ task_results[k] # <<>>
        /\ task_results[j][1].match_score # task_results[k][1].match_score
        /\ \E r \in user_matches :
              /\ RowsOf(user_matches, task_results[k][1].user_id,
                        match_tasks[k].listing.external_id) = {r}
              /\ r.match_score = task_results[k][1].match_score

\* C23 (as stated): after the shutdown no poll is started, and every task
\* that was in flight has run to its end: once the monitor loops have
\* stopped, every task that was created has handed its matches on.
C23_DrainOnShutdown ==
    (\A p \in Pollers : dt_pc[p] = "stopped") =>
        \A k \in DOMAIN task_pc : task_pc[k] = "done"

\* C25: a step of detectNew on a malformed record logs the payload and goes
\* on with the rest of the batch; it changes neither the seen store nor the
\* output, nor the listing rows, and the monitor stays in detectNew.
C25_MalformedSkipped ==
    [][ \A p \in Pollers :
            ( /\ dt_pc[p] = "detect"
              /\ dt_batch[p] # <<>>
              /\ Malformed(Head(dt_batch[p]))
              /\ dt_batch'[p] # dt_batch[p] )
                => /\ dt_batch'[p] = Tail(dt_batch[p])
                   /\ dt_pc'[p] = "detect"
                   /\ Head(dt_batch[p]) \in skipped'
                   /\ UNCHANGED <<seen, dt_out, listing_rows, listings, match_tasks>>
      ]_vars

\* A batch of a malformed record followed by a well-formed first sighting
\* has been through: the payload is logged, and the well-formed listing was
\* emitted as new, stored and given its task.
C25_Witness ==
    /\ MalformedRaw \in skipped
    /\ dt_pc[PipelineMonitor] = "sleep"
    /\ \E k \in DOMAIN match_tasks :
          /\ match_tasks[k].listing.external_id = MalformedRaw.external_id
          /\ match_tasks[k].kind = "new"
    /\ MalformedRaw.external_id \in listings
    /\ store_log = <<[listing |-> MkRaw("X456", "a", 1, 2, 1, "Pankow"), ok |-> TRUE]>>

StoredOk(e) == e.ok

\* C28: a task exists only for a listing store_listing has stored: the tasks
\* are, in order, the listings of the store_listing calls that returned, so
\* a call that raised has no task; and every task, every user_matches row
\* and every match handed to the dispatcher is for a listing in the store.
C28_StoredBeforeMatched ==
    /\ Len(match_tasks) = Len(SelectSeq(store_log, StoredOk))
    /\ \A k \in DOMAIN match_tasks :
          /\ match_tasks[k].listing = SelectSeq(store_log, StoredOk)[k].listing
          /\ match_tasks[k].listing.external_id \in listings
    /\ \A r \in user_matches : r.listing_id \in listings
    /\ \A i \in pl_intents : i.listing \in listings

\* store_listing raised for a listing that is in the store at no time, and
\* in another cycle a listing was stored and its matches were handed on.
C28_Witness ==
    /\ \E i \in DOMAIN store_log :
          /\ ~store_log[i].ok
          /\ store_log[i].listing.external_id \notin listings
    /\ pl_intents # {}

----------------------------------------------------------------------------
(* Properties of the Change Detector store (specification SpecStore) *)

ImmutableListingFields ==
    {"external_id", "title", "price_eur", "rooms", "size_sqm", "district", "first_seen_at"}

C30_SeenOnlyGrows ==
    [][ \A id \in ExternalIds :
            seen[id] # None =>
                /\ seen'[id] # None
                /\ \A p \in Pollers :
                       Len(dt_out'[p]) = Len(dt_out[p]) + 1 =>
                           ~ ( /\ dt_out'[p][Len(dt_out'[p])].kind = "new"
                               /\ dt_out'[p][Len(dt_out'[p])].listing.external_id = id )
      ]_vars

\* A listing was deactivated for staleness and then sighted again: the
\* sighting was taken as a duplicate or an update, and the listing is active
\* again.
C30_Witness ==
    \E e \in detect_log :
        /\ e.revived
        /\ e.verdict # "new"
        /\ listing_rows[e.external_id].is_active
        /\ Cardinality({f \in detect_log :
                f.external_id = e.external_id /\ f.verdict = "new"}) = 1

====
